---- MODULE Spec2Model ----
(***************************************************************************)
(* Model of the two ODE integrators of 06b-Runge-Kutta-and-adaptivity:     *)
(*   explicitRK(a, b, c, y0, T, f, h)      fixed-step explicit Runge-Kutta *)
(*   HeunWithEuler(y0, T, f, h, tol, gamma, alpha)   adaptive Heun-Euler   *)
(*                                                                         *)
(* The notebook computes in binary floating point (Python float /          *)
(* np.double).  Every arithmetic operation of the code is modelled as the  *)
(* exact operation followed by rounding to nearest, ties to even, in a     *)
(* binary floating-point format of Prec significand bits whose smallest    *)
(* positive (subnormal) value is 2^-FracBits and whose largest finite      *)
(* value is (2^Prec - 1) * 2^(MaxExp - FracBits); larger results overflow  *)
(* to infinity, and NaN propagates as in IEEE 754.  A float is stored as   *)
(* the integer  value * 2^FracBits.  The state of a solve is scalar (the   *)
(* notebook's example; norm of a scalar is its absolute value).            *)
(***************************************************************************)
EXTENDS Integers, Sequences, FiniteSets, TLC

\* ------------------------------------------------------------------------
\* Bounds of the model
\* ------------------------------------------------------------------------
\* significand bits of the modelled floating-point format
Prec == 4
\* the smallest positive float is 2^-FracBits
FracBits == 4
\* the largest finite float is (2^Prec - 1) * 2^MaxExp units
MaxExp == 6
\* loop iterations of one call that the model follows
MaxIter == 7
\* calls that return one after the other in a run of SpecCalls
MaxCalls == 2

\* ------------------------------------------------------------------------
\* Floating-point arithmetic
\* ------------------------------------------------------------------------
RECURSIVE Pow2(_)
Pow2(n) == IF n <= 0 THEN 1 ELSE 2 * Pow2(n - 1)

Scale == Pow2(FracBits)
One == Scale
Half == Scale \div 2
MaxFin == (Pow2(Prec) - 1) * Pow2(MaxExp)
Inf == 2 * MaxFin
NegInf == -Inf
NaN == 3 * MaxFin

IsNaN(x) == x = NaN
IsInf(x) == x = Inf \/ x = NegInf
IsFin(x) == ~IsNaN(x) /\ ~IsInf(x)

\* a / d rounded to the nearest integer, ties to even (a >= 0, d > 0)
RoundHalfEven(a, d) ==
    LET q == a \div d
        r == a % d
    IN  IF 2 * r < d THEN q
        ELSE IF 2 * r > d THEN q + 1
        ELSE IF q % 2 = 0 THEN q ELSE q + 1

\* least e >= e0 with a / (d * 2^e) < 2^Prec: the exponent of the result
RECURSIVE ExpOf(_, _, _)
ExpOf(a, d, e) ==
    IF a \div (d * Pow2(e)) < Pow2(Prec) THEN e ELSE ExpOf(a, d, e + 1)

\* the float nearest to the non-negative rational a / d (in units)
RoundMag(a, d) ==
    LET e == ExpOf(a, d, 0)
        r == RoundHalfEven(a, d * Pow2(e)) * Pow2(e)
    IN  IF r > MaxFin THEN Inf ELSE r

\* the float nearest to the rational n / d (in units), d > 0
FRound(n, d) == IF n >= 0 THEN RoundMag(n, d) ELSE -RoundMag(-n, d)

Sign(x) == IF x > 0 THEN 1 ELSE IF x < 0 THEN -1 ELSE 0

FNeg(x) == IF IsNaN(x) THEN NaN ELSE -x

FAbs(x) == IF IsNaN(x) THEN NaN ELSE IF x < 0 THEN -x ELSE x

FAdd(x, y) ==
    IF IsNaN(x) \/ IsNaN(y) THEN NaN
    ELSE IF IsInf(x) /\ IsInf(y) THEN (IF x = y THEN x ELSE NaN)
    ELSE IF IsInf(x) THEN x
    ELSE IF IsInf(y) THEN y
    ELSE FRound(x + y, 1)

FSub(x, y) == FAdd(x, FNeg(y))

FMul(x, y) ==
    IF IsNaN(x) \/ IsNaN(y) THEN NaN
    ELSE IF IsInf(x) \/ IsInf(y)
         THEN (IF x = 0 \/ y = 0 THEN NaN
               ELSE IF Sign(x) * Sign(y) > 0 THEN Inf ELSE NegInf)
    ELSE FRound(x * y, Scale)

FDiv(x, y) ==
    IF IsNaN(x) \/ IsNaN(y) THEN NaN
    ELSE IF IsInf(x) /\ IsInf(y) THEN NaN
    ELSE IF IsInf(x) THEN (IF Sign(x) * Sign(y) >= 0 THEN Inf ELSE NegInf)
    ELSE IF IsInf(y) THEN 0
    ELSE IF y = 0 THEN (IF x = 0 THEN NaN ELSE IF x > 0 THEN Inf ELSE NegInf)
    ELSE IF y > 0 THEN FRound(x * Scale, y)
    ELSE FRound(-(x * Scale), -y)

\* comparisons: any comparison with NaN is false
FLt(x, y) == ~IsNaN(x) /\ ~IsNaN(y) /\ x < y
FLe(x, y) == ~IsNaN(x) /\ ~IsNaN(y) /\ x <= y
FGt(x, y) == ~IsNaN(x) /\ ~IsNaN(y) /\ x > y

Two == 2 * One

\* ------------------------------------------------------------------------
\* Right-hand-side functions f(t, y) supplied by the caller
\* ------------------------------------------------------------------------
\* coefficients of the Riccati right-hand side g - alpha*v**2 in the model
RiccG == 2 * One
RiccA == Half
\* the switching time and the level of the discontinuous right-hand side
StepAt == Half
StepTo == MaxFin

RHS ==
    { [kind |-> "const", c |-> 0], [kind |-> "const", c |-> One],
      [kind |-> "const", c |-> 3], [kind |-> "y", c |-> 0],
      [kind |-> "negy", c |-> 0], [kind |-> "t", c |-> 0],
      [kind |-> "riccati", c |-> 0], [kind |-> "step", c |-> 0] }

\* right-hand sides given to the adaptive stepper only: one that is 0 at
\* t = 0 and StepTo at every later time, one that is undefined (nan) from
\* StepAt on, and one that is StepTo from StepAt up to PulseEnd and 0
\* elsewhere
PulseEnd == One
HardRHS ==
    { [kind |-> "jump", c |-> 0], [kind |-> "nan", c |-> 0],
      [kind |-> "pulse", c |-> 0] }

F(f, t, y) ==
    CASE f.kind = "const"   -> f.c
      [] f.kind = "y"       -> y
      [] f.kind = "negy"    -> FNeg(y)
      [] f.kind = "t"       -> t
      [] f.kind = "riccati" -> FSub(RiccG, FMul(RiccA, FMul(y, y)))
      [] f.kind = "step"    -> IF FLt(t, StepAt) THEN 0 ELSE StepTo
      [] f.kind = "jump"    -> IF FGt(t, 0) THEN StepTo ELSE 0
      [] f.kind = "nan"     -> IF FLt(t, StepAt) THEN 0 ELSE NaN
      [] f.kind = "pulse"   -> IF FLt(t, StepAt) \/ FGt(t, PulseEnd)
                               THEN 0 ELSE StepTo

\* ------------------------------------------------------------------------
\* Inputs of the calls the model explores
\* ------------------------------------------------------------------------
\* Butcher tableaus: Euler, Heun, midpoint, Heun with arbitrary entries on
\* and above the diagonal of a, a three-stage method, and a tableau whose
\* weights do not sum to 1
Tableaus ==
    { [a |-> << <<0>> >>, b |-> <<One>>, c |-> <<0>>],
      [a |-> << <<0, 0>>, <<One, 0>> >>, b |-> <<Half, Half>>, c |-> <<0, One>>],
      [a |-> << <<0, 0>>, <<Half, 0>> >>, b |-> <<0, One>>, c |-> <<0, Half>>],
      [a |-> << <<5, 7>>, <<One, 9>> >>, b |-> <<Half, Half>>, c |-> <<0, One>>],
      [a |-> << <<0, 0, 0>>, <<Half, 0, 0>>, <<Half, Half, 0>> >>,
       b |-> <<One \div 4, Half, One \div 4>>, c |-> <<0, Half, One>>],
      [a |-> << <<0, 0>>, <<One, 0>> >>, b |-> <<One, One>>, c |-> <<0, One>>] }

Y0s == {0, One}
Horizons == {0, One, 3 * Half, (15 * One) \div 8}
RKSteps == {One \div 4, (5 * One) \div 16, Half, One}
HeunSteps == {One \div 4, Half, 2 * One}
Tols == {0, 1, One \div 8, One}
Gammas == {Half, (3 * One) \div 4, One}
Alphas == {One, (5 * One) \div 4}

\* ------------------------------------------------------------------------
\* State
\* ------------------------------------------------------------------------
VARIABLES
    fn,      \* the function being executed: "explicitRK" or "HeunWithEuler"
    pc,      \* "idle" (no call yet), "loop" (at the while test), "done" (returned)
    arg,     \* the arguments of the call
    ts,      \* list of time instants
    ys,      \* list of solution values
    hs,      \* list of step sizes (HeunWithEuler)
    h,       \* the working step size
    ks,      \* stage derivatives (explicitRK)
    iter,    \* loop iterations executed so far
    fcalls,  \* calls of the right-hand-side function so far
    trace,   \* what each loop iteration did, and the step size it proposed
    calls,   \* calls that have returned to the caller
    memo,    \* the arguments and the outcome of one earlier call
    loc      \* the local variables of bisection and of newton_system

vars == <<fn, pc, arg, ts, ys, hs, h, ks, iter, fcalls, trace, calls, memo, loc>>

Last(s) == s[Len(s)]

NoArg == [a |-> <<>>, b |-> <<>>, c |-> <<>>, y0 |-> 0, T |-> 0,
          f |-> [kind |-> "const", c |-> 0], h |-> 0,
          tol |-> 0, gamma |-> 0, alpha |-> 0]

NoMemo == [fn |-> "", arg |-> NoArg, ts |-> <<>>, ys |-> <<>>, hs |-> <<>>,
           trace |-> <<>>, fcalls |-> 0]

\* no root-finding function has been called
NoLoc == [a |-> 0, b |-> 0, c |-> 0, fa |-> 0, fb |-> 0, x |-> 0, k |-> -1,
          bound |-> {}, ret |-> <<>>, updates |-> 0, exit |-> ""]

Init ==
    /\ fn = ""
    /\ pc = "idle"
    /\ arg = NoArg
    /\ ts = <<>>
    /\ ys = <<>>
    /\ hs = <<>>
    /\ h = 0
    /\ ks = <<>>
    /\ iter = 0
    /\ fcalls = 0
    /\ trace = <<>>
    /\ calls = 0
    /\ memo = NoMemo
    /\ loc = NoLoc

\* the while test with <= for <
LoopCondInclusive(tlist, T) == FLe(Last(tlist), T)

\* the test of both while loops: ts[-1] < T
LoopCond(tlist, T) == FLt(Last(tlist), T)

\* ------------------------------------------------------------------------
\* explicitRK
\* ------------------------------------------------------------------------
\* ks = [np.zeros_like(y0) for s in range(s)]
ZeroStages(s) == [i \in 1..s |-> 0]

\* the inner loop running over range(i+1): it reads ks[i] before it is set
RECURSIVE StageIncInclusive(_, _, _, _, _, _)
StageIncInclusive(a, hh, k, i, j, dY) ==
    IF j > i THEN dY
    ELSE StageIncInclusive(a, hh, k, i, j + 1,
                           FAdd(dY, FMul(FMul(hh, a[i][j]), k[j])))

\* the inner loop with the indices of a exchanged: a[j,i] for a[i,j]
RECURSIVE StageIncTransposed(_, _, _, _, _, _)
StageIncTransposed(a, hh, k, i, j, dY) ==
    IF j >= i THEN dY
    ELSE StageIncTransposed(a, hh, k, i, j + 1,
                            FAdd(dY, FMul(FMul(hh, a[j][i]), k[j])))

\* the inner loop  for j in range(i): dY_i += h*a[i,j]*ks[j]  from index j on
RECURSIVE StageInc(_, _, _, _, _, _)
StageInc(a, hh, k, i, j, dY) ==
    IF j >= i THEN dY
    ELSE StageInc(a, hh, k, i, j + 1, FAdd(dY, FMul(FMul(hh, a[i][j]), k[j])))

\* the loop  for i in range(s)  over the stages, from stage i on: the list
\* ks after it (indices are 1-based here, 0-based in the code)
RECURSIVE StageLoop(_, _, _, _, _, _, _)
StageLoop(a, c, f, hh, t, y, st) ==
    LET i == st.i
        k == st.k
    IN  IF i > Len(c) THEN k
        ELSE LET t_i == FAdd(t, FMul(c[i], hh))
                 dY_i == StageInc(a, hh, k, i, 1, 0)
             IN  StageLoop(a, c, f, hh, t, y,
                           [i |-> i + 1,
                            k |-> [k EXCEPT ![i] = F(f, t_i, FAdd(y, dY_i))]])

\* the weights b[i] left out of the increment
RECURSIVE IncrementUnweighted(_, _, _, _, _)
IncrementUnweighted(b, hh, k, i, dy) ==
    IF i > Len(b) THEN dy
    ELSE IncrementUnweighted(b, hh, k, i + 1, FAdd(dy, FMul(hh, k[i])))

\* the loop  for i in range(s): dy += h*b[i]*ks[i]  from index i on
RECURSIVE Increment(_, _, _, _, _)
Increment(b, hh, k, i, dy) ==
    IF i > Len(b) THEN dy
    ELSE Increment(b, hh, k, i + 1, FAdd(dy, FMul(FMul(hh, b[i]), k[i])))

\* entry of explicitRK(a, b, c, y0, T, f, h) up to the while test; what an
\* earlier call left in the variables it does not set stays there
CallRKWith(tab, y0, T, f, hh) ==
    /\ pc = "idle"
    /\ arg' = [NoArg EXCEPT !.a = tab.a, !.b = tab.b, !.c = tab.c,
                            !.y0 = y0, !.T = T, !.f = f, !.h = hh]
    /\ ks' = ZeroStages(Len(tab.b))
    /\ ys' = <<y0>>
    /\ ts' = <<0>>
    /\ h' = hh
    /\ fn' = "explicitRK"
    /\ pc' = "loop"
    /\ iter' = 0
    /\ fcalls' = 0
    /\ trace' = <<>>
    /\ UNCHANGED <<hs, calls, memo, loc>>

CallRK ==
    \E tab \in Tableaus, y0 \in Y0s, T \in Horizons, f \in RHS, hh \in RKSteps :
        CallRKWith(tab, y0, T, f, hh)

\* a step that trims the last time instant to the horizon
RKStepTrimmed ==
    /\ pc = "loop"
    /\ fn = "explicitRK"
    /\ iter < MaxIter
    /\ LoopCond(ts, arg.T)
    /\ LET t == Last(ts)
           y == Last(ys)
           k == StageLoop(arg.a, arg.c, arg.f, h, t, y, [i |-> 1, k |-> ks])
           dy == Increment(arg.b, h, k, 1, 0)
           tn == FAdd(t, h)
       IN  /\ ks' = k
           /\ ys' = Append(ys, FAdd(y, dy))
           /\ ts' = Append(ts, IF FGt(tn, arg.T) THEN arg.T ELSE tn)
    /\ iter' = iter + 1
    /\ fcalls' = fcalls + Len(arg.b)
    /\ trace' = Append(trace, [kind |-> "step", h |-> h])
    /\ UNCHANGED <<fn, pc, arg, hs, h, calls, memo, loc>>

RKStep ==
    /\ pc = "loop"
    /\ fn = "explicitRK"
    /\ iter < MaxIter
    /\ LoopCond(ts, arg.T)
    /\ LET t == Last(ts)
           y == Last(ys)
           k == StageLoop(arg.a, arg.c, arg.f, h, t, y, [i |-> 1, k |-> ks])
           dy == Increment(arg.b, h, k, 1, 0)
       IN  /\ ks' = k
           /\ ys' = Append(ys, FAdd(y, dy))
           /\ ts' = Append(ts, FAdd(t, h))
    /\ iter' = iter + 1
    /\ fcalls' = fcalls + Len(arg.b)
    /\ trace' = Append(trace, [kind |-> "step", h |-> h])
    /\ UNCHANGED <<fn, pc, arg, hs, h, calls, memo, loc>>

\* ------------------------------------------------------------------------
\* HeunWithEuler
\* ------------------------------------------------------------------------
\* the first evaluation at the end of the step instead of its start
K1AtEnd(f, t, y) == F(f, FAdd(t, h), y)

\* k1 = f(t,y)
K1(f, t, y) == F(f, t, y)

\* the second evaluation at the state y instead of y+h*k1
K2AtOldState(f, t, y, hh) == F(f, FAdd(t, hh), y)

\* k2 = f(t+h, y+h*k1)
K2(f, t, y, hh) == F(f, FAdd(t, hh), FAdd(y, FMul(hh, K1(f, t, y))))

\* epsilon = norm(h*((.5-1)*k1 + (.5-0)*k2))
Epsilon(f, t, y, hh) ==
    FAbs(FMul(hh, FAdd(FMul(FSub(Half, One), K1(f, t, y)),
                       FMul(FSub(Half, 0), K2(f, t, y, hh)))))

\* the acceptance test with its operands exchanged
AcceptedSwapped(eps, tol) == FLe(tol, eps)

\* the acceptance test written as "not epsilon > tol"
AcceptedUnlessGreater(eps, tol) == ~FGt(eps, tol)

\* if epsilon <= tol
Accepted(eps, tol) == FLe(eps, tol)

\* the final-step test left out
OvershootsNever(t, hh, T) == FALSE

\* if t+h > T
Overshoots(t, hh, T) == FGt(FAdd(t, hh), T)

\* the lower-order value y + h*k1
EulerValue(f, t, y, hh) == FAdd(y, FMul(hh, K1(f, t, y)))

\* y + 0.5*h*(k1+k2)
HeunValue(f, t, y, hh) ==
    FAdd(y, FMul(FMul(Half, hh), FAdd(K1(f, t, y), K2(f, t, y, hh))))

\* the corrected final step with the growth factor applied to it
ClippedStepGrown(T, t) == FMul(arg.alpha, FSub(T, t))

\* the corrected final step set to the horizon itself
ClippedStepToHorizon(T, t) == T

\* h = T-t
ClippedStep(T, t) == FSub(T, t)

\* h = alpha*h
GrownStep(alpha, hh) == FMul(alpha, hh)

\* the shrink factor without the division by 2
ShrunkStepNoHalving(hh, gamma, tol, eps) ==
    FMul(FMul(hh, gamma), FDiv(tol, eps))

\* h = h*gamma*((tol/epsilon)**1/2): ** binds tighter than /, and x**1 is x
ShrunkStep(hh, gamma, tol, eps) ==
    FMul(FMul(hh, gamma), FDiv(FDiv(tol, eps), Two))

\* the list hs kept from one call to the next, as a list held in a default
\* argument or a global would be
CallHeunKeepsList(y0, T, f, hh, tol, gamma, alpha) ==
    /\ pc = "idle"
    /\ arg' = [NoArg EXCEPT !.y0 = y0, !.T = T, !.f = f, !.h = hh,
                            !.tol = tol, !.gamma = gamma, !.alpha = alpha]
    /\ ys' = <<y0>>
    /\ ts' = <<0>>
    /\ hs' = IF hs = <<>> THEN <<hh>> ELSE hs
    /\ h' = hh
    /\ fn' = "HeunWithEuler"
    /\ pc' = "loop"
    /\ iter' = 0
    /\ fcalls' = 0
    /\ trace' = <<>>
    /\ UNCHANGED <<ks, calls, memo, loc>>

\* entry of HeunWithEuler(y0, T, f, h, tol, gamma, alpha) up to the while
\* test; what an earlier call left in the variables it does not set stays
CallHeunWith(y0, T, f, hh, tol, gamma, alpha) ==
    /\ pc = "idle"
    /\ arg' = [NoArg EXCEPT !.y0 = y0, !.T = T, !.f = f, !.h = hh,
                            !.tol = tol, !.gamma = gamma, !.alpha = alpha]
    /\ ys' = <<y0>>
    /\ ts' = <<0>>
    /\ hs' = <<hh>>
    /\ h' = hh
    /\ fn' = "HeunWithEuler"
    /\ pc' = "loop"
    /\ iter' = 0
    /\ fcalls' = 0
    /\ trace' = <<>>
    /\ UNCHANGED <<ks, calls, memo, loc>>

CallHeun ==
    \E y0 \in Y0s, T \in Horizons, f \in RHS \cup HardRHS, hh \in HeunSteps,
       tol \in Tols, gamma \in Gammas, alpha \in Alphas :
        CallHeunWith(y0, T, f, hh, tol, gamma, alpha)

\* calls in which the first accepted step ends half a unit in the last
\* place of the horizon away from zero and the grown step overshoots: the
\* horizon's significand is odd, so T - t and t + (T - t) both round
\* and a call whose horizon is six steps that do not add up to it
EdgeCases ==
    { [T |-> (15 * One) \div 8, h |-> (3 * One) \div 16],
      [T |-> (9 * One) \div 8, h |-> One \div 16],
      [T |-> (15 * One) \div 8, h |-> (5 * One) \div 16] }
EdgeGrowth == 32 * One

CallHeunEdge ==
    \E e \in EdgeCases, y0 \in Y0s, alpha \in {One, EdgeGrowth} :
        CallHeunWith(y0, e.T, [kind |-> "const", c |-> 0], e.h, One, Half,
                     alpha)

HeunIter ==
    /\ pc = "loop"
    /\ fn = "HeunWithEuler"
    /\ iter < MaxIter
    /\ LoopCond(ts, arg.T)
    /\ iter' = iter + 1
    /\ fcalls' = fcalls + 2
    /\ UNCHANGED <<fn, pc, arg, ks, calls, memo, loc>>

\* an accepted step that records the step size after it has been grown
HeunAcceptRecordsGrown ==
    /\ HeunIter
    /\ LET t == Last(ts)
           y == Last(ys)
       IN  /\ Accepted(Epsilon(arg.f, t, y, h), arg.tol)
           /\ ~Overshoots(t, h, arg.T)
           /\ ys' = Append(ys, HeunValue(arg.f, t, y, h))
           /\ ts' = Append(ts, FAdd(t, h))
           /\ hs' = Append(hs, GrownStep(arg.alpha, h))
           /\ h' = GrownStep(arg.alpha, h)
    /\ trace' = Append(trace, [kind |-> "accept", h |-> h])

HeunAccept ==
    /\ HeunIter
    /\ LET t == Last(ts)
           y == Last(ys)
       IN  /\ Accepted(Epsilon(arg.f, t, y, h), arg.tol)
           /\ ~Overshoots(t, h, arg.T)
           /\ ys' = Append(ys, HeunValue(arg.f, t, y, h))
           /\ ts' = Append(ts, FAdd(t, h))
           /\ hs' = Append(hs, h)
           /\ h' = GrownStep(arg.alpha, h)
    /\ trace' = Append(trace, [kind |-> "accept", h |-> h])

\* the final-step correction without its else: the step is taken as well
HeunClipTakesStep ==
    /\ HeunIter
    /\ LET t == Last(ts)
           y == Last(ys)
           hc == ClippedStep(arg.T, t)
       IN  /\ Accepted(Epsilon(arg.f, t, y, h), arg.tol)
           /\ Overshoots(t, h, arg.T)
           /\ ys' = Append(ys, FAdd(y, FMul(FMul(Half, hc),
                                FAdd(K1(arg.f, t, y), K2(arg.f, t, y, h)))))
           /\ ts' = Append(ts, FAdd(t, hc))
           /\ hs' = Append(hs, hc)
           /\ h' = GrownStep(arg.alpha, hc)
    /\ trace' = Append(trace, [kind |-> "clip", h |-> h])

HeunClip ==
    /\ HeunIter
    /\ LET t == Last(ts)
           y == Last(ys)
       IN  /\ Accepted(Epsilon(arg.f, t, y, h), arg.tol)
           /\ Overshoots(t, h, arg.T)
           /\ h' = ClippedStep(arg.T, t)
    /\ trace' = Append(trace, [kind |-> "clip", h |-> h])
    /\ UNCHANGED <<ts, ys, hs>>

HeunReject ==
    /\ HeunIter
    /\ LET t == Last(ts)
           y == Last(ys)
           eps == Epsilon(arg.f, t, y, h)
       IN  /\ ~Accepted(eps, arg.tol)
           /\ h' = ShrunkStep(h, arg.gamma, arg.tol, eps)
    /\ trace' = Append(trace, [kind |-> "reject", h |-> h])
    /\ UNCHANGED <<ts, ys, hs>>

\* the while test fails: return (np.array(ts), np.array(ys)[, np.array(hs)])
Return ==
    /\ pc = "loop"
    /\ ~LoopCond(ts, arg.T)
    /\ pc' = "done"
    /\ UNCHANGED <<fn, arg, ts, ys, hs, h, ks, iter, fcalls, trace, calls, memo, loc>>

Next ==
    \/ CallRK \/ RKStep \/ CallHeun \/ CallHeunEdge
    \/ HeunAccept \/ HeunClip \/ HeunReject \/ Return

Spec == Init /\ [][Next]_vars

\* ------------------------------------------------------------------------
\* Several calls, one after the other
\* ------------------------------------------------------------------------
\* the calls a run of SpecCalls makes
SeqTableaus ==
    { [a |-> << <<0, 0>>, <<One, 0>> >>, b |-> <<Half, Half>>, c |-> <<0, One>>],
      [a |-> << <<0, 0, 0>>, <<Half, 0, 0>>, <<Half, Half, 0>> >>,
       b |-> <<One \div 4, Half, One \div 4>>, c |-> <<0, Half, One>>] }
SeqRHS == { [kind |-> "y", c |-> 0], [kind |-> "riccati", c |-> 0] }
SeqTols == {One \div 8, One}

SeqCallRK ==
    \E tab \in SeqTableaus, f \in SeqRHS :
        CallRKWith(tab, One, One, f, Half)

SeqCallHeun ==
    \E f \in SeqRHS, tol \in SeqTols :
        CallHeunWith(One, One, f, Half, tol, (3 * One) \div 4, (5 * One) \div 4)

\* the caller has the result and the frame of the call is gone: the next
\* call may start.  The values the call left behind are not cleared here.
Finish ==
    /\ pc = "done"
    /\ calls < MaxCalls
    /\ pc' = "idle"
    /\ calls' = calls + 1
    /\ UNCHANGED <<fn, arg, ts, ys, hs, h, ks, iter, fcalls, trace, memo, loc>>

\* as Finish, and the caller keeps the arguments and the result to compare
\* a later call with
FinishKeep ==
    /\ pc = "done"
    /\ calls < MaxCalls
    /\ memo = NoMemo
    /\ pc' = "idle"
    /\ calls' = calls + 1
    /\ memo' = [fn |-> fn, arg |-> arg, ts |-> ts, ys |-> ys,
                hs |-> IF fn = "HeunWithEuler" THEN hs ELSE <<>>,
                trace |-> trace, fcalls |-> fcalls]
    /\ UNCHANGED <<fn, arg, ts, ys, hs, h, ks, iter, fcalls, trace, loc>>

NextCalls ==
    \/ SeqCallRK \/ RKStep \/ SeqCallHeun \/ HeunAccept \/ HeunClip \/ HeunReject
    \/ Return \/ Finish \/ FinishKeep

SpecCalls == Init /\ [][NextCalls]_vars

\* ------------------------------------------------------------------------
\* Properties
\* ------------------------------------------------------------------------
HeunCall == fn = "HeunWithEuler"
RKCall == fn = "explicitRK"
Kinds == {trace[i].kind : i \in 1..Len(trace)}

\* the step-control parameters are as the documentation expects them:
\* a positive initial guess, gamma in (0,1), alpha > 1
UsualControl ==
    /\ arg.h > 0
    /\ arg.gamma > 0 /\ arg.gamma < One
    /\ arg.alpha > One

\* C1: every sample of HeunWithEuler's trajectory but the first was produced
\* by a proposal whose error estimate, computed from the previous sample
\* and the recorded step size hs[i], is at or below the tolerance.
C1_AcceptedWithinTol ==
    HeunCall =>
        \A i \in 2..Len(ts) :
            FLe(Epsilon(arg.f, ts[i-1], ys[i-1], hs[i]), arg.tol)

\* C1 witness: two samples were appended after at least one rejection.
C1_Witness ==
    HeunCall /\ Len(ts) >= 3 /\ "reject" \in Kinds

\* C2: no recorded time of HeunWithEuler exceeds the horizon T, and when the
\* stepper has returned the last recorded time equals T exactly.
C2_LandsOnHorizon ==
    HeunCall =>
        /\ \A i \in 1..Len(ts) : FLe(ts[i], arg.T)
        /\ pc = "done" => Last(ts) = arg.T

\* C2 witness: the stepper returned after a final-step correction, with at
\* least two accepted steps.
C2_Witness ==
    HeunCall /\ pc = "done" /\ Len(ts) >= 3 /\ "clip" \in Kinds

\* C3: with a positive initial guess, a positive tolerance, gamma in (0,1)
\* and alpha > 1, the recorded times of HeunWithEuler are strictly
\* increasing in every reachable state.
C3_StrictlyIncreasing ==
    (HeunCall /\ UsualControl /\ arg.tol > 0) =>
        \A i \in 1..(Len(ts) - 1) : FLt(ts[i], ts[i+1])

\* C4: with a positive initial guess, gamma in (0,1), alpha > 1 and any
\* tolerance >= 0, every recorded step size and the working step size of
\* HeunWithEuler are strictly positive.
C4_PositiveSteps ==
    (HeunCall /\ UsualControl /\ arg.tol >= 0) =>
        /\ \A i \in 1..Len(hs) : FGt(hs[i], 0)
        /\ FGt(h, 0)

\* C5, state part: ts, ys and hs have the same length and start with 0, y0
\* and the caller's initial guess.
C5_Shape ==
    HeunCall =>
        /\ Len(ts) = Len(ys) /\ Len(ys) = Len(hs)
        /\ ts[1] = 0 /\ ys[1] = arg.y0 /\ hs[1] = arg.h

\* C5, step part: an iteration either leaves the three lists alone or
\* appends exactly one entry to each, and it appends only when the proposal
\* met the tolerance and did not overshoot the horizon.
C5_Growth ==
    (HeunCall /\ pc = "loop") =>
        \/ UNCHANGED <<ts, ys, hs>>
        \/ /\ Len(ts') = Len(ts) + 1 /\ SubSeq(ts', 1, Len(ts)) = ts
           /\ Len(ys') = Len(ys) + 1 /\ SubSeq(ys', 1, Len(ys)) = ys
           /\ Len(hs') = Len(hs) + 1 /\ SubSeq(hs', 1, Len(hs)) = hs
           /\ FLe(Epsilon(arg.f, Last(ts), Last(ys), h), arg.tol)
           /\ ~FGt(FAdd(Last(ts), h), arg.T)

\* C5: in every reachable state of HeunWithEuler the lists ts, ys and hs
\* have the same length and begin with 0, y0 and the initial guess, and they
\* grow only together, by one entry each, on an accepted un-clipped step.
C5_ParallelLists == []C5_Shape /\ [][C5_Growth]_vars

\* C5 witness: the lists have grown, and an iteration clipped the step and
\* another rejected it without growing them.
C5_Witness ==
    HeunCall /\ Len(hs) >= 3 /\ "clip" \in Kinds /\ "reject" \in Kinds

\* the time instants 0, h, (0+h)+h, ... accumulated over n steps
RECURSIVE AccTimes(_, _)
AccTimes(hh, n) ==
    IF n = 0 THEN <<0>>
    ELSE LET p == AccTimes(hh, n - 1) IN Append(p, FAdd(Last(p), hh))

\* C6: for h > 0 and T > 0 the times of explicitRK are 0, h, 2h, ..., N*h
\* with N the smallest integer such that N*h >= T (each product n*h taken
\* as the float nearest to it, the reading most favourable to the code).
C6_TimesAreMultiples ==
    (RKCall /\ arg.h > 0 /\ arg.T > 0) =>
        /\ \A i \in 1..Len(ts) : ts[i] = FRound((i - 1) * arg.h, 1)
        /\ pc = "done" =>
              LET N == Len(ts) - 1
              IN  /\ FRound(N * arg.h, 1) >= arg.T
                  /\ \A n \in 0..(N - 1) : FRound(n * arg.h, 1) < arg.T

\* C6 amended: for h > 0 and T > 0 the times of explicitRK are the
\* accumulated sums ts[0] = 0, ts[n+1] = ts[n] + h (each sum rounded), a
\* function of h alone; every sample but the last is < T, and at return the
\* last one is the first accumulated sum at or beyond T, untrimmed.
C6_TimesAccumulate ==
    (RKCall /\ arg.h > 0 /\ arg.T > 0) =>
        /\ ts = AccTimes(arg.h, Len(ts) - 1)
        /\ \A i \in 1..(Len(ts) - 1) : FLt(ts[i], arg.T)
        /\ pc = "done" => ~FLt(Last(ts), arg.T)

\* C6 witness: explicitRK returned with a last time beyond the horizon that
\* is not the multiple N*h, after one step more than the smallest N with
\* N*h >= T.
C6_Witness ==
    /\ RKCall /\ pc = "done" /\ arg.h > 0 /\ arg.T > 0
    /\ Last(ts) > arg.T
    /\ Last(ts) # (Len(ts) - 1) * arg.h
    /\ (Len(ts) - 2) * arg.h >= arg.T

\* the explicit Runge-Kutta step written as the recurrence
\*   k_i = f(t + c_i*h, y + sum_{j<i} h*a_ij*k_j),  y+ = y + sum_i h*b_i*k_i
\* with the sums taken in index order
RECURSIVE RefStage(_, _, _, _, _, _, _), RefSum(_, _, _, _, _, _, _, _)
RefStage(a, c, f, hh, t, y, i) ==
    F(f, FAdd(t, FMul(c[i], hh)), FAdd(y, RefSum(a, c, f, hh, t, y, i, i - 1)))
RefSum(a, c, f, hh, t, y, i, j) ==
    IF j = 0 THEN 0
    ELSE FAdd(RefSum(a, c, f, hh, t, y, i, j - 1),
              FMul(FMul(hh, a[i][j]), RefStage(a, c, f, hh, t, y, j)))

RECURSIVE RefWeighted(_, _, _, _, _, _, _, _)
RefWeighted(a, b, c, f, hh, t, y, n) ==
    IF n = 0 THEN 0
    ELSE FAdd(RefWeighted(a, b, c, f, hh, t, y, n - 1),
              FMul(FMul(hh, b[n]), RefStage(a, c, f, hh, t, y, n)))

RECURSIVE SumSeq(_, _)
SumSeq(q, n) == IF n = 0 THEN 0 ELSE SumSeq(q, n - 1) + q[n]

ConstField == arg.f.kind = "const"
Consistent == SumSeq(arg.b, Len(arg.b)) = One

\* C8: for weights summing to 1 and a constant right-hand side C the states
\* of explicitRK are y_n = y_0 + n*h*C exactly, for every n with
\* n*h <= T (y, h, C in units of 1/Scale, so the identity is scaled).
C8_ExactOnConstants ==
    (RKCall /\ ConstField /\ Consistent) =>
        \A n \in 0..(Len(ys) - 1) :
            n * arg.h <= arg.T =>
                ys[n+1] * Scale = arg.y0 * Scale + n * arg.h * arg.f.c

\* the increment of one step on a constant field C: the sum, in stage
\* order, of (h*b[i])*C
RECURSIVE ConstIncrement(_, _, _, _)
ConstIncrement(b, hh, C, n) ==
    IF n = 0 THEN 0
    ELSE FAdd(ConstIncrement(b, hh, C, n - 1), FMul(FMul(hh, b[n]), C))

\* C8 amended: for weights summing to 1 and a constant right-hand side C
\* every step of explicitRK adds the same rounded increment,
\* y_{n+1} = y_n + d with d the sum over the stages of (h*b[i])*C,
\* whatever a and c are; y_n is y_0 + n*h*C only up to rounding.
C8_ConstantIncrement ==
    (RKCall /\ ConstField /\ Consistent) =>
        \A n \in 1..(Len(ys) - 1) :
            ys[n+1] = FAdd(ys[n], ConstIncrement(arg.b, arg.h, arg.f.c,
                                                 Len(arg.b)))

\* C8 witness: three steps on a non-zero constant field with a tableau whose
\* a and c are not zero, where rounding has moved y_3 off y_0 + 3*h*C.
C8_Witness ==
    /\ RKCall /\ ConstField /\ Consistent
    /\ arg.f.c # 0 /\ Len(arg.b) >= 2 /\ arg.a[2][1] # 0
    /\ Len(ys) >= 4
    /\ ys[4] * Scale # arg.y0 * Scale + 3 * arg.h * arg.f.c

\* C9: with T = 0 both explicitRK and HeunWithEuler go to their return
\* without a loop iteration and without a call of f: the lists hold the
\* single sample (0, y0), and hs the initial guess alone.
C9_ZeroHorizon ==
    (pc # "idle" /\ arg.T = 0) =>
        /\ ts = <<0>> /\ ys = <<arg.y0>>
        /\ HeunCall => hs = <<arg.h>>
        /\ iter = 0 /\ fcalls = 0
        /\ ~FLt(Last(ts), arg.T)

\* C9 witness: HeunWithEuler has returned from a call with T = 0.
C9_Witness ==
    HeunCall /\ pc = "done" /\ arg.T = 0 /\ arg.h > 0

IsPrefix(p, q) == Len(p) <= Len(q) /\ SubSeq(q, 1, Len(p)) = p

\* C10: a call of explicitRK or HeunWithEuler with the arguments of an
\* earlier call goes through the same iterations (same kind, same proposed
\* step, same growing lists) and returns the same lists after the same
\* number of calls of f, whatever calls ran before or in between.
C10_Deterministic ==
    (pc # "idle" /\ memo.fn = fn /\ memo.arg = arg) =>
        /\ IsPrefix(trace, memo.trace)
        /\ IsPrefix(ts, memo.ts)
        /\ IsPrefix(ys, memo.ys)
        /\ HeunCall => IsPrefix(hs, memo.hs)
        /\ pc = "done" =>
              /\ trace = memo.trace /\ fcalls = memo.fcalls
              /\ ts = memo.ts /\ ys = memo.ys
              /\ HeunCall => hs = memo.hs

\* C10 witness: HeunWithEuler has returned from a call with the arguments of
\* a remembered call that took several steps, with another call in between.
C10_Witness ==
    /\ pc = "done" /\ HeunCall /\ calls >= 2
    /\ memo.fn = fn /\ memo.arg = arg
    /\ Len(memo.ts) >= 3 /\ Len(ks) > 0

\* the positive floats
IsPositiveFloat(x) == x > 0 /\ x <= MaxFin /\ FRound(x, 1) = x

\* some positive step size proposed from the initial sample meets the
\* tolerance
SomeStepMeetsTol ==
    \E x \in 1..MaxFin :
        IsPositiveFloat(x) /\ FLe(Epsilon(arg.f, 0, arg.y0, x), arg.tol)

\* C11: in a call of HeunWithEuler with T > 0 whose right-hand side keeps
\* the error estimate above tol for every positive step size, every
\* iteration is a rejection, the trajectory keeps its single initial sample
\* and the call does not return.
C11_OnlyRejections ==
    (/\ HeunCall
     /\ arg.T > 0
     /\ \/ Len(ts) > 1
        \/ pc = "done"
        \/ Kinds \ {"reject"} # {})
        => SomeStepMeetsTol

\* C12: once the error estimate of a proposal of HeunWithEuler is nan the
\* proposal is rejected and the step size becomes nan; from then on every
\* iteration is a rejection that leaves the step size nan and the three
\* lists as they are, and the call does not return.
C12_NanStep ==
    (HeunCall /\ pc = "loop" /\ iter' = iter + 1
       /\ (IsNaN(h) \/ IsNaN(Epsilon(arg.f, Last(ts), Last(ys), h))))
        => /\ Last(trace').kind = "reject"
           /\ IsNaN(h')
           /\ UNCHANGED <<ts, ys, hs>>

C12_NanNeverReturns ==
    (HeunCall /\ IsNaN(h)) => (pc = "loop" /\ FLt(Last(ts), arg.T))

C12_NanRejects == []C12_NanNeverReturns /\ [][C12_NanStep]_vars

\* C12 witness: the step size is nan after a step was accepted, and three
\* iterations have been spent since the first nan estimate.
C12_Witness ==
    /\ HeunCall /\ IsNaN(h) /\ Len(ts) >= 2
    /\ Len(trace) >= 4
    /\ \A i \in Len(trace)-2..Len(trace) : trace[i].kind = "reject"
    /\ IsNaN(trace[Len(trace)].h)

\* C14: an iteration of HeunWithEuler whose error estimate exceeds tol
\* leaves ts, ys and hs as they are, so that the next proposal starts from
\* the same (t, y), and replaces the step size by h*gamma*((tol/epsilon)/2).
C14_Step ==
    LET t == Last(ts)
        y == Last(ys)
        k1 == F(arg.f, t, y)
        k2 == F(arg.f, FAdd(t, h), FAdd(y, FMul(h, k1)))
        eps == FAbs(FMul(h, FAdd(FMul(FSub(Half, One), k1),
                                 FMul(FSub(Half, 0), k2))))
    IN  (HeunCall /\ pc = "loop" /\ iter' = iter + 1 /\ FGt(eps, arg.tol))
            => /\ UNCHANGED <<ts, ys, hs>>
               /\ Last(trace').kind = "reject"
               /\ h' = FMul(FMul(h, arg.gamma),
                            FDiv(FDiv(arg.tol, eps), Two))

C14_RejectionStep == [][C14_Step]_vars

\* C14 witness: the last iteration rejected a proposal with a positive
\* tolerance, and the new step size is positive and below
\* h*gamma*(tol/epsilon), hence below what a square root of tol/epsilon
\* (which is at least tol/epsilon here) would have given.
C14_Witness ==
    /\ HeunCall /\ trace # <<>> /\ Last(trace).kind = "reject"
    /\ arg.tol > 0 /\ h > 0
    /\ LET h0 == Last(trace).h
           eps == Epsilon(arg.f, Last(ts), Last(ys), h0)
       IN  /\ FGt(eps, arg.tol)
           /\ FLt(h, FMul(FMul(h0, arg.gamma), FDiv(arg.tol, eps)))

\* C15: an iteration of HeunWithEuler whose proposal meets the tolerance
\* while t + h > T appends nothing, does not apply the growth factor and
\* sets the step size to T - t; the k1, k2 of the over-long proposal go
\* into no sample: every recorded sample is the Heun value of stage
\* derivatives evaluated with its own recorded step size.
C15_Step ==
    LET t == Last(ts)
        y == Last(ys)
        k1 == F(arg.f, t, y)
        k2 == F(arg.f, FAdd(t, h), FAdd(y, FMul(h, k1)))
        eps == FAbs(FMul(h, FAdd(FMul(FSub(Half, One), k1),
                                 FMul(FSub(Half, 0), k2))))
    IN  (HeunCall /\ pc = "loop" /\ iter' = iter + 1
           /\ FLe(eps, arg.tol) /\ FGt(FAdd(t, h), arg.T))
            => /\ UNCHANGED <<ts, ys, hs>>
               /\ Last(trace').kind = "clip"
               /\ h' = FSub(arg.T, t)

C15_Samples ==
    HeunCall =>
        \A i \in 2..Len(ys) :
            LET k1 == F(arg.f, ts[i-1], ys[i-1])
                k2 == F(arg.f, FAdd(ts[i-1], hs[i]),
                        FAdd(ys[i-1], FMul(hs[i], k1)))
            IN  ys[i] = FAdd(ys[i-1], FMul(FMul(Half, hs[i]), FAdd(k1, k2)))

C15_FinalStepCorrection == []C15_Samples /\ [][C15_Step]_vars

\* C15 witness: a final-step correction with growth factor above 1 was
\* followed by an accepted step, and the sample of that step differs from
\* the one the k2 of the over-long proposal would have given.
C15_Witness ==
    /\ HeunCall /\ arg.alpha > One
    /\ Len(trace) >= 2 /\ Len(ts) >= 2
    /\ trace[Len(trace) - 1].kind = "clip"
    /\ trace[Len(trace)].kind = "accept"
    /\ LET t == ts[Len(ts) - 1]
           y == ys[Len(ys) - 1]
           hlong == trace[Len(trace) - 1].h
           hc == Last(hs)
       IN  /\ hc = FSub(arg.T, t)
           /\ FLt(hc, hlong)
           /\ Last(ys) # FAdd(y, FMul(FMul(Half, hc),
                               FAdd(K1(arg.f, t, y), K2(arg.f, t, y, hlong))))

\* the last iteration was a final-step correction
JustClipped ==
    HeunCall /\ pc = "loop" /\ trace # <<>> /\ Last(trace).kind = "clip"

\* C16: the iteration that follows a final-step correction of HeunWithEuler
\* accepts the corrected proposal and appends the sample at time T, after
\* which the loop exits, whatever the right-hand side.
C16_Step ==
    (JustClipped /\ iter' = iter + 1)
        => /\ Last(trace').kind = "accept"
           /\ Last(ts') = arg.T

C16_RetryStep ==
    LET t == Last(ts)
        n == Len(trace)
    IN  /\ (JustClipped /\ iter' = iter + 1)
              => /\ Last(trace').h = FSub(arg.T, t)
                 /\ Last(trace').kind = "accept"
                      => /\ Len(ts') = Len(ts) + 1
                         /\ Last(ts') = FAdd(t, FSub(arg.T, t))
        /\ (/\ HeunCall /\ pc = "loop" /\ n >= 2
            /\ trace[n - 1].kind = "clip" /\ trace[n].kind = "accept"
            /\ t = arg.T)
              => pc' = "done"

C17_Step ==
    LET t == Last(ts)
        y == Last(ys)
        k1 == F(arg.f, t, y)
        k2 == F(arg.f, FAdd(t, h), FAdd(y, FMul(h, k1)))
        eps == FAbs(FMul(h, FAdd(FMul(FSub(Half, One), k1),
                                 FMul(FSub(Half, 0), k2))))
    IN  (HeunCall /\ pc = "loop" /\ iter' = iter + 1
           /\ FLe(eps, arg.tol) /\ FLe(FAdd(t, h), arg.T))
            => /\ ts' = Append(ts, FAdd(t, h))
               /\ ys' = Append(ys, FAdd(y, FMul(FMul(Half, h), FAdd(k1, k2))))
               /\ hs' = Append(hs, h)
               /\ h' = FMul(arg.alpha, h)
               /\ Last(trace').kind = "accept"

C17_AcceptanceStep == [][C17_Step]_vars

\* C17 witness: the last iteration accepted a step; the recorded step size
\* is smaller than the grown working step size, and the recorded value
\* differs from the Euler value of the same proposal.
C17_Witness ==
    /\ HeunCall /\ trace # <<>> /\ Last(trace).kind = "accept"
    /\ Len(ts) >= 2
    /\ Last(hs) = Last(trace).h
    /\ FLt(Last(hs), h)
    /\ LET t == ts[Len(ts) - 1]
           y == ys[Len(ys) - 1]
       IN  Last(ys) # FAdd(y, FMul(Last(hs), F(arg.f, t, y)))

\* the matrix a with every entry on and above the diagonal replaced by v
FillUpper(a, v) ==
    [i \in 1..Len(a) |-> [j \in 1..Len(a) |-> IF j < i THEN a[i][j] ELSE v]]

\* the values written on and above the diagonal of a in the second run
Fills == {0, 3 * One, NegInf, NaN}

\* the time and state lists after n steps of explicitRK with the matrix a,
\* each step starting from stage derivatives that are all zero
RECURSIVE RunRK(_, _, _, _, _, _, _)
RunRK(a, b, c, y0, f, hh, n) ==
    IF n = 0 THEN [ts |-> <<0>>, ys |-> <<y0>>]
    ELSE LET r == RunRK(a, b, c, y0, f, hh, n - 1)
             t == Last(r.ts)
             y == Last(r.ys)
             k == StageLoop(a, c, f, hh, t, y,
                            [i |-> 1, k |-> ZeroStages(Len(b))])
         IN  [ts |-> Append(r.ts, FAdd(t, hh)),
              ys |-> Append(r.ys, FAdd(y, Increment(b, hh, k, 1, 0)))]

HeunIteration == HeunCall /\ pc = "loop" /\ iter' = iter + 1

\* C19: every iteration of HeunWithEuler calls f exactly twice, and its
\* error estimate is the norm of the difference between the Heun value
\* y + 0.5*h*(k1+k2) and the Euler value y + h*k1.
C19_Difference ==
    LET t == Last(ts)
        y == Last(ys)
        k1 == F(arg.f, t, y)
        k2 == F(arg.f, FAdd(t, h), FAdd(y, FMul(h, k1)))
        heun == FAdd(y, FMul(FMul(Half, h), FAdd(k1, k2)))
        euler == FAdd(y, FMul(h, k1))
    IN  HeunIteration
            => /\ fcalls' = fcalls + 2
               /\ Epsilon(arg.f, t, y, h) = FAbs(FSub(heun, euler))

C19_EstimateIsDifference == [][C19_Difference]_vars

\* C19 as amended: every iteration of HeunWithEuler, whatever it decides,
\* calls f exactly twice, k1 = f(t, y) and k2 = f(t+h, y+h*k1); the error
\* estimate that decides it is norm(h*((.5-1)*k1 + (.5-0)*k2)) of these two
\* values, and an accepted state is y + 0.5*h*(k1+k2) of the same two.
C19_Step ==
    LET t == Last(ts)
        y == Last(ys)
        k1 == F(arg.f, t, y)
        k2 == F(arg.f, FAdd(t, h), FAdd(y, FMul(h, k1)))
        eps == FAbs(FMul(h, FAdd(FMul(FSub(Half, One), k1),
                                 FMul(FSub(Half, 0), k2))))
        kind == Last(trace').kind
    IN  HeunIteration
            => /\ fcalls' = fcalls + 2
               /\ kind \in {"accept", "clip", "reject"}
               /\ kind = "reject" <=> ~FLe(eps, arg.tol)
               /\ kind = "clip" <=> (FLe(eps, arg.tol) /\ FGt(FAdd(t, h), arg.T))
               /\ kind = "accept"
                    => Last(ys') = FAdd(y, FMul(FMul(Half, h), FAdd(k1, k2)))

C19_TwoEvaluations == [][C19_Step]_vars

\* C19 witness: a call has accepted, clipped and rejected proposals with two
\* calls of f for each, and the estimate of its last accepted step differs
\* from the norm of the difference of the computed Heun and Euler values.
C19_Witness ==
    /\ HeunCall /\ Kinds = {"accept", "clip", "reject"}
    /\ fcalls = 2 * Len(trace)
    /\ LET t == ts[Len(ts) - 1]
           y == ys[Len(ys) - 1]
           hh == Last(hs)
       IN  Epsilon(arg.f, t, y, hh)
             # FAbs(FSub(Last(ys), FAdd(y, FMul(hh, F(arg.f, t, y)))))

\* C20: in HeunWithEuler the first entry of hs is the caller's initial
\* guess, whether or not a step of that size is ever taken, and from the
\* second entry on hs holds the step sizes actually taken: each recorded
\* time is the previous one plus the step size recorded with it.
C20_StepsTaken ==
    HeunCall =>
        /\ Len(hs) = Len(ts)
        /\ hs[1] = arg.h
        /\ \A i \in 2..Len(ts) : ts[i] = FAdd(ts[i-1], hs[i])

\* C20 witness: the initial guess was rejected, two steps were then taken,
\* and no step has the size of the initial guess.
C20_Witness ==
    /\ HeunCall /\ Len(ts) >= 3
    /\ trace[1].kind = "reject" /\ trace[1].h = hs[1]
    /\ \A i \in 2..Len(hs) : hs[i] # hs[1] /\ hs[i] > 0
    /\ ts[2] # FAdd(ts[1], hs[1])

\* C21: with tol > 0, gamma in (0,1] and a positive step size h, every
\* rejection of HeunWithEuler produces a new step size h' with
\* 0 < h' < h/2.
C21_Step ==
    (/\ HeunIteration
     /\ arg.tol > 0 /\ arg.gamma > 0 /\ arg.gamma <= One
     /\ FGt(h, 0) /\ IsFin(h)
     /\ Last(trace').kind = "reject")
        => FGt(h', 0) /\ FLt(FMul(Two, h'), h)

C21_ShrinksByHalf == [][C21_Step]_vars

\* C22: a call of HeunWithEuler with T >= 0, a positive initial guess and
\* alpha > 1 in which no proposal is rejected reaches last time = T and
\* returns.  The loop is deterministic in (ts, ys, hs, h), so it returns
\* only if no iteration leaves these four as it found them.
C22_Step ==
    (/\ HeunIteration
     /\ arg.T >= 0 /\ arg.h > 0 /\ arg.alpha > One
     /\ "reject" \notin Kinds
     /\ Last(trace').kind # "reject")
        => <<ts, ys, hs, h>>' # <<ts, ys, hs, h>>

C22_NoIdleIteration == [][C22_Step]_vars

\* aHeun, bHeun, cHeun
HeunTableau ==
    [a |-> << <<0, 0>>, <<One, 0>> >>, b |-> <<Half, Half>>, c |-> <<0, One>>]

\* the lists explicitRK returns: steps are taken from the n-th on while the
\* last time is below T (followed for MaxIter steps at most)
RECURSIVE RunRKToEnd(_, _, _, _, _, _)
RunRKToEnd(tab, y0, T, f, hh, n) ==
    LET r == RunRK(tab.a, tab.b, tab.c, y0, f, hh, n)
    IN  IF FLt(Last(r.ts), T) /\ n < MaxIter
        THEN RunRKToEnd(tab, y0, T, f, hh, n + 1)
        ELSE r

\* the horizon is a whole number of steps of the initial guess
WholeSteps == \E N \in 0..MaxIter : FMul(N * One, arg.h) = arg.T

\* a call of HeunWithEuler with alpha = 1 and T = N*h has returned without
\* having rejected a proposal
BaselineRun ==
    /\ HeunCall /\ pc = "done"
    /\ arg.alpha = One /\ arg.h > 0 /\ WholeSteps
    /\ "reject" \notin Kinds

\* C23: with T = N*h, alpha = 1 and no proposal rejected, HeunWithEuler
\* returns the time and state lists that explicitRK returns with the Heun
\* tableau and the same y0, T, f, h.
C23_SameAsExplicitRK ==
    BaselineRun =>
        LET r == RunRKToEnd(HeunTableau, arg.y0, arg.T, arg.f, arg.h, 0)
        IN  r.ts = ts /\ r.ys = ys

\* C23 as amended: with T = N*h, alpha = 1 and no proposal rejected, every
\* step of HeunWithEuler uses the stage derivatives that a step of
\* explicitRK with the Heun tableau computes from the same (t, y, h), and
\* adds (0.5*h)*(k1 + k2) to the state; its times are those of explicitRK
\* as long as the steps have the size of the initial guess, and the whole
\* time lists are equal when explicitRK's accumulated times meet T exactly.
C23_SameStages ==
    (/\ HeunCall
     /\ arg.alpha = One /\ arg.h > 0 /\ WholeSteps
     /\ "reject" \notin Kinds)
        => /\ \A i \in 2..Len(ts) :
                LET k == StageLoop(HeunTableau.a, HeunTableau.c, arg.f, hs[i],
                                   ts[i-1], ys[i-1],
                                   [i |-> 1, k |-> ZeroStages(2)])
                IN  ys[i] = FAdd(ys[i-1],
                                 FMul(FMul(Half, hs[i]), FAdd(k[1], k[2])))
           /\ LET r == RunRK(HeunTableau.a, HeunTableau.b, HeunTableau.c,
                             arg.y0, arg.f, arg.h, Len(ts) - 1)
              IN  \A i \in 1..Len(ts) :
                      (\A j \in 1..i : hs[j] = arg.h) => ts[i] = r.ts[i]
           /\ pc = "done" =>
                LET e == RunRKToEnd(HeunTableau, arg.y0, arg.T, arg.f, arg.h, 0)
                IN  Last(e.ts) = arg.T => e.ts = ts

\* C23 witness: such a call has returned after two or more steps on a
\* right-hand side that depends on the state, with the time list of
\* explicitRK and a state list that differs from explicitRK's.
C23_Witness ==
    /\ BaselineRun /\ Len(ts) >= 3
    /\ arg.f.kind \in {"y", "negy", "riccati"}
    /\ LET e == RunRKToEnd(HeunTableau, arg.y0, arg.T, arg.f, arg.h, 0)
       IN  e.ts = ts /\ e.ys # ys

\* ------------------------------------------------------------------------
\* bisection
\* ------------------------------------------------------------------------
\* the threshold 1.e-14 of the test on abs(f(c)): it lies below the
\* smallest positive float of the modelled format, which stands for it
VeryClose == 1

\* scalar functions given to bisection: x*x - x (the example, with
\* roots 0 and 1), x - 1, x*x - 2 and 1 - x
ScalarFns == {"quad", "lin", "sqrt2", "neglin"}

FScalar(f, x) ==
    CASE f = "quad"   -> FSub(FMul(x, x), x)
      [] f = "lin"    -> FSub(x, One)
      [] f = "sqrt2"  -> FSub(FMul(x, x), Two)
      [] f = "neglin" -> FSub(One, x)

\* the arguments of the calls of bisection
LeftEnds == {0, Half, One}
RightEnds == {One, Two, 3 * One}
BisTols == {One \div 8, Half}
MaxIters == {0, 1, 2, 5}

\* entry of bisection(f, a, b, tol, max_iter) up to the for loop, with the
\* return of (0, 0) when f(a)*f(b) > 0
CallBisectionWith(f, a0, b0, tol, max_iter) ==
    /\ pc = "idle"
    /\ fn' = "bisection"
    /\ arg' = [f |-> f, a |-> a0, b |-> b0, tol |-> tol, max_iter |-> max_iter]
    /\ iter' = 0
    /\ LET fa == FScalar(f, a0)
           fb == FScalar(f, b0)
       IN  IF FGt(FMul(fa, fb), 0)
           THEN /\ loc' = [NoLoc EXCEPT !.a = a0, !.b = b0, !.fa = fa,
                                        !.fb = fb, !.ret = <<0, 0>>]
                /\ pc' = "done"
           ELSE /\ loc' = [NoLoc EXCEPT !.a = a0, !.b = b0, !.fa = fa,
                                        !.fb = fb]
                /\ pc' = "loop"
    /\ UNCHANGED <<ts, ys, hs, h, ks, fcalls, trace, calls, memo>>

CallBisection ==
    \E f \in ScalarFns, a0 \in LeftEnds, b0 \in RightEnds, tol \in BisTols,
       max_iter \in MaxIters :
        a0 < b0 /\ CallBisectionWith(f, a0, b0, tol, max_iter)

\* c = 0.5*(a+b)
Midpoint(a, b) == FMul(Half, FAdd(a, b))

\* the head of one pass of  for k in range(max_iter)
BisectionIter ==
    /\ pc = "loop"
    /\ fn = "bisection"
    /\ iter < arg.max_iter
    /\ iter' = iter + 1
    /\ UNCHANGED <<fn, arg, ts, ys, hs, h, ks, fcalls, trace, calls, memo>>

\* abs(f(c)) < 1.e-14, or (b-a) < 2*tol: break, and return c, k
BisectionBreak ==
    /\ BisectionIter
    /\ LET c == Midpoint(loc.a, loc.b)
           fc == FScalar(arg.f, c)
       IN  /\ \/ FLt(FAbs(fc), VeryClose)
              \/ FLt(FSub(loc.b, loc.a), FMul(Two, arg.tol))
           /\ loc' = [loc EXCEPT !.c = c, !.k = iter, !.bound = {"c", "k"},
                                 !.ret = <<c, iter>>]
    /\ pc' = "done"

\* elif fa*fc < 0
KeepsLeft(fa, fc) == FLt(FMul(fa, fc), 0)

\* b = c: there is a root in [a, c]
BisectionLeft ==
    /\ BisectionIter
    /\ LET c == Midpoint(loc.a, loc.b)
           fc == FScalar(arg.f, c)
       IN  /\ ~FLt(FAbs(fc), VeryClose)
           /\ ~FLt(FSub(loc.b, loc.a), FMul(Two, arg.tol))
           /\ KeepsLeft(loc.fa, fc)
           /\ loc' = [loc EXCEPT !.c = c, !.k = iter, !.bound = {"c", "k"},
                                 !.b = c]
    /\ pc' = "loop"

\* a = c: there is a root in [c, b]
BisectionRight ==
    /\ BisectionIter
    /\ LET c == Midpoint(loc.a, loc.b)
           fc == FScalar(arg.f, c)
       IN  /\ ~FLt(FAbs(fc), VeryClose)
           /\ ~FLt(FSub(loc.b, loc.a), FMul(Two, arg.tol))
           /\ ~KeepsLeft(loc.fa, fc)
           /\ loc' = [loc EXCEPT !.c = c, !.k = iter, !.bound = {"c", "k"},
                                 !.a = c]
    /\ pc' = "loop"

\* the for loop is exhausted: return c, k, which raises UnboundLocalError
\* when the loop body never ran
BisectionReturn ==
    /\ pc = "loop"
    /\ fn = "bisection"
    /\ iter >= arg.max_iter
    /\ IF loc.bound = {}
       THEN pc' = "raised" /\ loc' = loc
       ELSE pc' = "done" /\ loc' = [loc EXCEPT !.ret = <<loc.c, loc.k>>]
    /\ UNCHANGED <<fn, arg, ts, ys, hs, h, ks, iter, fcalls, trace, calls, memo>>

NextBisection ==
    \/ CallBisection \/ BisectionBreak \/ BisectionLeft \/ BisectionRight
    \/ BisectionReturn

SpecBisection == Init /\ [][NextBisection]_vars

\* the initial check of the call passed
BracketChecked ==
    fn = "bisection" /\ pc \in {"loop", "done"} /\ loc.ret # <<0, 0>>

\* C24: when the initial check f(a)*f(b) <= 0 of bisection passes, the
\* interval [a, b] kept after every iteration still has f(a)*f(b) <= 0.
C24_KeepsBracket ==
    BracketChecked
        => FLe(FMul(FScalar(arg.f, loc.a), FScalar(arg.f, loc.b)), 0)

\* ------------------------------------------------------------------------
\* newton_system
\* ------------------------------------------------------------------------
\* systems of one equation given to newton_system, with their Jacobians:
\* x*x - 2, x - 1 and x*x + 1 (which has no root)
Systems == {"sqrt2", "lin", "noroot"}

FSystem(f, x) ==
    CASE f = "sqrt2"  -> FSub(FMul(x, x), Two)
      [] f = "lin"    -> FSub(x, One)
      [] f = "noroot" -> FAdd(FMul(x, x), One)

J(f, x) ==
    CASE f = "sqrt2"  -> FMul(Two, x)
      [] f = "lin"    -> One
      [] f = "noroot" -> FMul(Two, x)

\* the arguments of the calls of newton_system
StartValues == {0, One, Two}
NewtonTols == {1, One \div 4}

\* entry of newton_system(f, J, x0, tol, max_iter) up to the for loop
CallNewtonWith(f, x0, tol, max_iter) ==
    /\ pc = "idle"
    /\ fn' = "newton_system"
    /\ arg' = [f |-> f, x0 |-> x0, tol |-> tol, max_iter |-> max_iter]
    /\ iter' = 0
    /\ loc' = [NoLoc EXCEPT !.x = x0]
    /\ pc' = "loop"
    /\ UNCHANGED <<ts, ys, hs, h, ks, fcalls, trace, calls, memo>>

CallNewton ==
    \E f \in Systems, x0 \in StartValues, tol \in NewtonTols,
       max_iter \in MaxIters :
        CallNewtonWith(f, x0, tol, max_iter)

\* the head of one pass of  for k in range(max_iter)
NewtonIter ==
    /\ pc = "loop"
    /\ fn = "newton_system"
    /\ iter < arg.max_iter
    /\ iter' = iter + 1
    /\ UNCHANGED <<fn, arg, ts, ys, hs, h, ks, fcalls, trace, calls, memo>>

\* me = norm(fx, math.inf) of a vector with one entry
MaxEntry(fx) == FAbs(fx)

\* if me < tol: break, and return x, k
NewtonBreak ==
    /\ NewtonIter
    /\ FLt(MaxEntry(FSystem(arg.f, loc.x)), arg.tol)
    /\ loc' = [loc EXCEPT !.k = iter, !.bound = {"k"}, !.ret = <<loc.x, iter>>,
                          !.exit = "break"]
    /\ pc' = "done"

\* delta = solve(Jx, -fx); x = x + delta
NewtonUpdate ==
    /\ NewtonIter
    /\ LET fx == FSystem(arg.f, loc.x)
           Jx == J(arg.f, loc.x)
       IN  /\ ~FLt(MaxEntry(fx), arg.tol)
           /\ Jx # 0
           /\ loc' = [loc EXCEPT !.k = iter, !.bound = {"k"},
                                 !.x = FAdd(loc.x, FDiv(FNeg(fx), Jx)),
                                 !.updates = loc.updates + 1]
    /\ pc' = "loop"

\* solve raises LinAlgError for a singular Jacobian
NewtonSingular ==
    /\ NewtonIter
    /\ ~FLt(MaxEntry(FSystem(arg.f, loc.x)), arg.tol)
    /\ J(arg.f, loc.x) = 0
    /\ loc' = [loc EXCEPT !.k = iter, !.bound = {"k"}, !.exit = "LinAlgError"]
    /\ pc' = "raised"

\* the for loop is exhausted: return x, k, which raises UnboundLocalError
\* when the loop body never ran
NewtonReturn ==
    /\ pc = "loop"
    /\ fn = "newton_system"
    /\ iter >= arg.max_iter
    /\ IF loc.bound = {}
       THEN pc' = "raised" /\ loc' = [loc EXCEPT !.exit = "UnboundLocalError"]
       ELSE /\ pc' = "done"
            /\ loc' = [loc EXCEPT !.ret = <<loc.x, loc.k>>, !.exit = "exhausted"]
    /\ UNCHANGED <<fn, arg, ts, ys, hs, h, ks, iter, fcalls, trace, calls, memo>>

NextNewton ==
    \/ CallNewton \/ NewtonBreak \/ NewtonUpdate \/ NewtonSingular
    \/ NewtonReturn

SpecNewton == Init /\ [][NextNewton]_vars

\* C25: the count newton_system returns is the number of Newton updates it
\* applied, and it equals max_iter exactly when the max_iter iterations were
\* used up without the max-norm of f(x) falling below tol.
C25_CountIsUpdates ==
    (fn = "newton_system" /\ pc = "done")
        => /\ loc.ret[2] = loc.updates
           /\ loc.ret[2] = arg.max_iter <=> loc.exit = "exhausted"

====
